---- MODULE Spec2Model ----
(***************************************************************************)
(* Model of template_dict: the nested-key field resolver (utils.get_field) *)
(* and the Template parser / evaluator (templates.Template and the         *)
(* built-in operators).                                                    *)
(*                                                                         *)
(* Python values are tagged tuples:                                        *)
(*   <<"str", chars>>    a str, chars the sequence of its characters        *)
(*   <<"int", n>>  <<"float", n>>  <<"bool", b>>  <<"none">>               *)
(*   <<"list", seq>>  <<"tuple", seq>>   sequences of values               *)
(*   <<"dict", f>>       a dict, f a function from key chars to values     *)
(*   <<"type", name>>    a class object (KeyError, int, ...)               *)
(*   <<"opaque", name>>  a value whose content is not modelled             *)
(*   <<"op", cls, args>> an Operator node of class cls with its args       *)
(* and a call that raises has the outcome <<"err", ExceptionName>>.        *)
(***************************************************************************)
EXTENDS Integers, Sequences, FiniteSets, TLC

VARIABLES tmpl, op, args, result, errSeen

vars == <<tmpl, op, args, result, errSeen>>

----------------------------------------------------------------------------
(* Values *)

PyStr(chars) == <<"str", chars>>
PyInt(n) == <<"int", n>>
PyNone == <<"none">>
PyList(seq) == <<"list", seq>>
PyTuple(seq) == <<"tuple", seq>>
PyDict(f) == <<"dict", f>>
PyType(name) == <<"type", name>>
Err(name) == <<"err", name>>
EmptyDict == PyDict([k \in {} |-> PyNone])

Tag(v) == v[1]
IsStr(v) == Tag(v) = "str"
IsDict(v) == Tag(v) = "dict"
IsSeq(v) == Tag(v) \in {"list", "tuple"}
IsErr(v) == Tag(v) = "err"
IsOp(v) == Tag(v) = "op"

\* issubclass(cls, Exception) for the classes that occur
ExceptionNames == {"KeyError", "ValueError"}
IsExceptionClass(v) == Tag(v) = "type" /\ v[2] \in ExceptionNames

\* s[i:] of a sequence, i counted from 1
From(s, i) == SubSeq(s, i, Len(s))

\* the first raised exception of a sequence of outcomes, evaluated in order
RECURSIVE FirstErr(_)
FirstErr(seq) ==
  IF seq = <<>> THEN PyNone
  ELSE IF IsErr(Head(seq)) THEN Head(seq)
  ELSE FirstErr(Tail(seq))

HasErr(seq) == \E i \in 1..Len(seq) : IsErr(seq[i])

----------------------------------------------------------------------------
(* utils.get_field *)

\* str.split(delimiter): the pieces between the delimiters, empty ones kept
RECURSIVE SplitFrom(_, _, _)
SplitFrom(chars, delim, cur) ==
  IF chars = <<>> THEN <<cur>>
  ELSE IF Head(chars) = delim THEN <<cur>> \o SplitFrom(Tail(chars), delim, <<>>)
  ELSE SplitFrom(Tail(chars), delim, Append(cur, Head(chars)))

Split(chars, delim) == SplitFrom(chars, delim, <<>>)

\* bool(v), as `if _key:` tests it
Truthy(v) ==
  CASE Tag(v) \in {"str", "list", "tuple"} -> v[2] /= <<>>
    [] Tag(v) = "dict" -> DOMAIN v[2] /= {}
    [] Tag(v) = "int" -> v[2] /= 0
    [] Tag(v) = "float" -> \E i \in 1..Len(v[2]) : v[2][i] \notin {"0", "."}
    [] Tag(v) = "bool" -> v[2]
    [] Tag(v) = "none" -> FALSE
    [] OTHER -> TRUE

\* hash(v) succeeds, as `_key in __obj` needs of a dict
RECURSIVE Hashable(_)
Hashable(v) ==
  CASE Tag(v) \in {"list", "dict"} -> FALSE
    [] Tag(v) = "tuple" -> \A i \in 1..Len(v[2]) : Hashable(v[2][i])
    [] OTHER -> TRUE

\* a key absent from a dict: raise default(__key) when default is an exception
\* class, else return default
MissingKey(default) ==
  IF Tag(default) = "type" /\ IsExceptionClass(default) THEN Err(default[2])
  ELSE default

\* the current value is neither a dict nor a list/tuple: return default
NotContainer(default) == default

\* __key[n:], the path handed to the recursive calls of the list/tuple branch
RemainingFromNext(segs, n) == From(segs, n + 1)
Remaining(segs, n) == From(segs, n)

\* the list/tuple branch: type(__obj)(results), the first exception propagating
BroadcastResult(obj, results) ==
  IF HasErr(results) THEN FirstErr(results) ELSE <<Tag(obj), results>>

\* the loop over enumerate(__key), from position n (counted from 1); the keys of
\* every dict are str
RECURSIVE Walk(_, _, _, _)
Walk(obj, segs, n, default) ==
  IF n > Len(segs) THEN obj
  ELSE IF ~Truthy(segs[n]) THEN Walk(obj, segs, n + 1, default)
  ELSE IF IsDict(obj) THEN
    IF ~Hashable(segs[n]) THEN Err("TypeError")
    ELSE IF IsStr(segs[n]) /\ segs[n][2] \in DOMAIN obj[2]
    THEN Walk(obj[2][segs[n][2]], segs, n + 1, default)
    ELSE MissingKey(default)
  ELSE IF IsSeq(obj) THEN
    BroadcastResult(obj,
      [i \in 1..Len(obj[2]) |-> Walk(obj[2][i], Remaining(segs, n), 1, default)])
  ELSE NotContainer(default)

\* some enumeration of a finite set (a dict's keys; the model keeps no insertion
\* order, so this is the code's order only for dicts of at most one key)
RECURSIVE SetToSeq(_)
SetToSeq(S) ==
  IF S = {} THEN <<>>
  ELSE LET e == CHOOSE e \in S : TRUE IN <<e>> \o SetToSeq(S \ {e})

Iterable(v) == Tag(v) \in {"str", "list", "tuple", "dict"}

\* what `for n, _key in enumerate(__key)` walks: a str is split on the delimiter
\* first, a list or tuple gives its elements, a dict its keys
KeySegments(key, delim) ==
  CASE IsStr(key) ->
         LET pieces == Split(key[2], delim)
         IN [i \in 1..Len(pieces) |-> PyStr(pieces[i])]
    [] IsSeq(key) -> key[2]
    [] IsDict(key) ->
         LET ks == SetToSeq(DOMAIN key[2])
         IN [i \in 1..Len(ks) |-> PyStr(ks[i])]

GetField(obj, key, default, delim) ==
  IF ~Iterable(key) THEN Err("TypeError")
  ELSE Walk(obj, KeySegments(key, delim), 1, default)

----------------------------------------------------------------------------
(* templates.Definitions: the default syntax *)

BracketOpen == "["
BracketClose == "]"
OperatorSign == "!"
OperatorDelimiter == ":"
KeyDelimiter == "."
EmptyDefault == PyType("KeyError")
FmtEmptyDefault == PyStr(<<"-">>)
FmtKeyDelimiter == "-"
FmtJoinDelimiter == ","
DefaultOperator == <<"s">>
\* the backtick character (written by name: a string of the module cannot hold it)
EscapeQuote == "backtick"

Definitions ==
  [operator_brackets |-> <<BracketOpen, BracketClose>>,
   operator_sign |-> OperatorSign,
   operator_delimiter |-> OperatorDelimiter,
   key_delimiter |-> KeyDelimiter,
   empty_default |-> EmptyDefault,
   fmt_empty_default |-> FmtEmptyDefault,
   fmt_key_delimiter |-> FmtKeyDelimiter,
   fmt_join_delimiter |-> FmtJoinDelimiter,
   default_operator |-> DefaultOperator,
   escape_quote |-> EscapeQuote]

\* the operator registry: name -> Operator class
OPERATORS ==
  (<<"s">> :> "OperatorSelect") @@ (<<"x">> :> "OperatorExec")
    @@ (<<"f">> :> "OperatorFormat")

\* an Operator node: Operator.__init__ keeps the args tuple (the back-reference
\* to the owning Template is not kept in the model: every node of a tree has
\* the same one)
OpNode(cls, opargs) == <<"op", cls, opargs>>
OpClass(node) == node[2]
OpArgs(node) == node[3]

----------------------------------------------------------------------------
(* Template._parse_string *)

\* one round of the loop over enumerate(s): the quote flag after character v
QuotedAfterNoToggle(v, quoted) == quoted
QuotedAfter(v, quoted) == IF v = EscapeQuote THEN ~quoted ELSE quoted

\* ... and the bracket counter after it
CounterAfter(v, counter, quoted) ==
  IF v = EscapeQuote THEN counter
  ELSE IF v = BracketOpen /\ ~quoted THEN counter + 1
  ELSE IF v = BracketClose /\ ~quoted THEN counter - 1
  ELSE counter

\* the loop: n the position (from 1), x the start of the current argument,
\* parts the substrings s[x:n] cut so far
RECURSIVE Scan(_, _, _, _, _, _)
Scan(s, n, x, counter, quoted, parts) ==
  IF n > Len(s) THEN [x |-> x, parts |-> parts]
  ELSE
    LET v == s[n]
        c == CounterAfter(v, counter, quoted)
        q == QuotedAfter(v, quoted)
    IN IF v = OperatorDelimiter /\ ~q /\ c = 0
       THEN Scan(s, n + 1, n + 1, c, q, Append(parts, SubSeq(s, x, n - 1)))
       ELSE Scan(s, n + 1, x, c, q, parts)

\* the substrings handed to the recursive _parse_string calls, in order: those
\* cut in the loop, then s[x:] when it is not empty
SplitArgs(s) ==
  LET r == Scan(s, 1, 1, 0, FALSE, <<>>)
      rest == From(s, r.x)
  IN IF rest /= <<>> THEN Append(r.parts, rest) ELSE r.parts

StartsWithSign(v) == IsStr(v) /\ v[2] /= <<>> /\ v[2][1] = OperatorSign

\* the operator built from the parsed arguments: args[0] names it when it is a
\* str that starts with the operator sign
MakeOperator(parsed) ==
  IF parsed = <<>> THEN Err("IndexError")
  ELSE
    LET named == StartsWithSign(parsed[1])
        name == IF named THEN Tail(parsed[1][2]) ELSE DefaultOperator
        opargs == IF named THEN Tail(parsed) ELSE parsed
    IN IF name \notin DOMAIN OPERATORS THEN Err("KeyError")
       ELSE OpNode(OPERATORS[name], opargs)

\* s[1:-1]
StripFirst(s) == Tail(s)
StripEnds(s) == SubSeq(s, 2, Len(s) - 1)

\* a str s: the str itself (one quote stripped from each end of a quoted one),
\* ValueError for a bracket at one end only, else the operator of its interior.
\* Each argument is parsed when the loop cuts it, so the first failing one
\* raises.
RECURSIVE ParseString(_)
ParseString(s) ==
  IF s = <<>> THEN PyStr(s)
  ELSE
    LET bls == s[1] = BracketOpen
        blr == s[Len(s)] = BracketClose
    IN IF ~bls /\ ~blr THEN
         IF s[1] = EscapeQuote /\ s[Len(s)] = EscapeQuote
         THEN PyStr(StripEnds(s))
         ELSE PyStr(s)
       ELSE IF ~bls \/ ~blr THEN Err("ValueError")
       ELSE
         LET parts == SplitArgs(StripEnds(s))
             parsed == [i \in 1..Len(parts) |-> ParseString(parts[i])]
         IN IF HasErr(parsed) THEN FirstErr(parsed) ELSE MakeOperator(parsed)

\* what `keys.extend(...)` adds for one node: every str argument of a Select
NodeKeys(node) ==
  IF OpClass(node) = "OperatorSelect"
  THEN {OpArgs(node)[i][2] : i \in {j \in 1..Len(OpArgs(node)) : IsStr(OpArgs(node)[j])}}
  ELSE {}

\* a failing value of a dict (the first in the code's insertion order; the
\* model keeps no order and picks one)
DictErr(f) == f[CHOOSE k \in DOMAIN f : IsErr(f[k])]

\* Template._parse_value
RECURSIVE ParseValue(_)
ParseValue(value) ==
  CASE IsDict(value) ->
         LET f == [k \in DOMAIN value[2] |-> ParseValue(value[2][k])]
         IN IF \E k \in DOMAIN f : IsErr(f[k]) THEN DictErr(f) ELSE PyDict(f)
    [] IsStr(value) -> ParseString(value[2])
    [] IsSeq(value) ->
         LET t == [i \in 1..Len(value[2]) |-> ParseValue(value[2][i])]
         IN IF HasErr(t) THEN FirstErr(t) ELSE PyTuple(t)
    [] OTHER -> value

\* the keys list after parsing: every node built adds its NodeKeys
RECURSIVE CollectKeys(_)
CollectKeys(parsed) ==
  CASE IsOp(parsed) ->
         NodeKeys(parsed)
           \cup UNION {CollectKeys(OpArgs(parsed)[i]) : i \in 1..Len(OpArgs(parsed))}
    [] IsDict(parsed) -> UNION {CollectKeys(parsed[2][k]) : k \in DOMAIN parsed[2]}
    [] IsSeq(parsed) -> UNION {CollectKeys(parsed[2][i]) : i \in 1..Len(parsed[2])}
    [] OTHER -> {}

----------------------------------------------------------------------------
(* ast.literal_eval, the built-in functions of FUNCTIONS *)

Digits == <<"0", "1", "2", "3", "4", "5", "6", "7", "8", "9">>
Letters ==
  {"a", "b", "c", "d", "e", "f", "g", "h", "i", "j", "k", "l", "m", "n", "o", "p",
   "q", "r", "s", "t", "u", "v", "w", "x", "y", "z", "F", "N", "T", "_"}

IsDigit(c) == \E i \in 1..10 : Digits[i] = c
DigitVal(c) == (CHOOSE i \in 1..10 : Digits[i] = c) - 1
IsDigits(chars) == chars /= <<>> /\ \A i \in 1..Len(chars) : IsDigit(chars[i])

RECURSIVE IntOfDigits(_)
IntOfDigits(chars) ==
  IF chars = <<>> THEN 0
  ELSE 10 * IntOfDigits(SubSeq(chars, 1, Len(chars) - 1)) + DigitVal(chars[Len(chars)])

RECURSIVE DigitsOfNat(_)
DigitsOfNat(n) ==
  IF n < 10 THEN <<Digits[n + 1]>>
  ELSE Append(DigitsOfNat(n \div 10), Digits[(n % 10) + 1])

Keywords ==
  {<<"F", "a", "l", "s", "e">>,
   <<"N", "o", "n", "e">>,
   <<"T", "r", "u", "e">>,
   <<"a", "n", "d">>,
   <<"a", "s">>,
   <<"a", "s", "s", "e", "r", "t">>,
   <<"a", "s", "y", "n", "c">>,
   <<"a", "w", "a", "i", "t">>,
   <<"b", "r", "e", "a", "k">>,
   <<"c", "l", "a", "s", "s">>,
   <<"c", "o", "n", "t", "i", "n", "u", "e">>,
   <<"d", "e", "f">>,
   <<"d", "e", "l">>,
   <<"e", "l", "i", "f">>,
   <<"e", "l", "s", "e">>,
   <<"e", "x", "c", "e", "p", "t">>,
   <<"f", "i", "n", "a", "l", "l", "y">>,
   <<"f", "o", "r">>,
   <<"f", "r", "o", "m">>,
   <<"g", "l", "o", "b", "a", "l">>,
   <<"i", "f">>,
   <<"i", "m", "p", "o", "r", "t">>,
   <<"i", "n">>,
   <<"i", "s">>,
   <<"l", "a", "m", "b", "d", "a">>,
   <<"n", "o", "n", "l", "o", "c", "a", "l">>,
   <<"n", "o", "t">>,
   <<"o", "r">>,
   <<"p", "a", "s", "s">>,
   <<"r", "a", "i", "s", "e">>,
   <<"r", "e", "t", "u", "r", "n">>,
   <<"t", "r", "y">>,
   <<"w", "h", "i", "l", "e">>,
   <<"w", "i", "t", "h">>,
   <<"y", "i", "e", "l", "d">>}

IsIdentifier(chars) ==
  /\ chars /= <<>>
  /\ chars[1] \in Letters
  /\ \A i \in 1..Len(chars) : chars[i] \in Letters \/ IsDigit(chars[i])

\* delim.join(strs)
RECURSIVE JoinStr(_, _)
JoinStr(delim, strs) ==
  IF strs = <<>> THEN <<>>
  ELSE IF Len(strs) = 1 THEN strs[1]
  ELSE strs[1] \o delim \o JoinStr(delim, Tail(strs))

\* a result the model does not compute
Unmodelled == <<"opaque", "unmodelled">>

\* literal_eval of a str over the letters above, the digits and the characters
\* [ ] : ! . ' and the backtick: a decimal int, None, True, False, a
\* single-quoted str, a float of digits, the empty list; a name or dotted name
\* is a ValueError (malformed node), anything else a SyntaxError. Anything but
\* a str is a ValueError.
LiteralEval(v) ==
  IF ~IsStr(v) THEN Err("ValueError")
  ELSE
    LET c == v[2]
        dot == Split(c, ".")
    IN CASE IsDigits(c) ->
              IF Len(c) > 1 /\ c[1] = "0" /\ IntOfDigits(c) /= 0
              THEN Err("SyntaxError") ELSE PyInt(IntOfDigits(c))
         [] c = <<"N", "o", "n", "e">> -> PyNone
         [] c = <<"T", "r", "u", "e">> -> <<"bool", TRUE>>
         [] c = <<"F", "a", "l", "s", "e">> -> <<"bool", FALSE>>
         [] Len(c) >= 2 /\ c[1] = "'" /\ c[Len(c)] = "'" ->
              IF \E i \in 2..(Len(c) - 1) : c[i] = "'"
              THEN Err("SyntaxError") ELSE PyStr(SubSeq(c, 2, Len(c) - 1))
         [] c = <<"[", "]">> -> PyList(<<>>)
         [] Len(c) > 2 /\ c[1] = "[" /\ c[Len(c)] = "]" -> Unmodelled
         [] \A i \in 1..Len(dot) : IsIdentifier(dot[i]) /\ dot[i] \notin Keywords ->
              Err("ValueError")
         [] /\ Len(dot) = 2
            /\ dot[1] \o dot[2] /= <<>>
            /\ \A i \in 1..2 : dot[i] = <<>> \/ IsDigits(dot[i])
            /\ ~(Len(dot[1]) > 1 /\ dot[1][1] = "0" /\ IntOfDigits(dot[1]) /= 0) ->
              <<"float", c>>
         [] OTHER -> Err("SyntaxError")

\* the function registry: name -> built-in
FUNCTIONS ==
  (<<"i", "n", "t">> :> "int") @@ (<<"f", "l", "o", "a", "t">> :> "float")
    @@ (<<"s", "t", "r">> :> "str") @@ (<<"b", "o", "o", "l">> :> "bool")
    @@ (<<"m", "i", "n">> :> "min") @@ (<<"m", "a", "x">> :> "max")
    @@ (<<"s", "u", "m">> :> "sum")
    @@ (<<"t", "i", "m", "e", "s", "t", "a", "m", "p">> :> "timestamp")
    @@ (<<"u", "u", "i", "d">> :> "uuid")

AllInts(seq) == \A i \in 1..Len(seq) : Tag(seq[i]) = "int"

RECURSIVE SumInts(_)
SumInts(seq) == IF seq = <<>> THEN 0 ELSE seq[1][2] + SumInts(Tail(seq))

MaxInt(seq) == CHOOSE m \in {seq[i][2] : i \in 1..Len(seq)} : \A i \in 1..Len(seq) : seq[i][2] <= m
MinInt(seq) == CHOOSE m \in {seq[i][2] : i \in 1..Len(seq)} : \A i \in 1..Len(seq) : m <= seq[i][2]

\* max / min over the values of seq: exact for ints and for a single value
Extreme(f, seq) ==
  IF Len(seq) = 1 THEN seq[1]
  ELSE IF AllInts(seq) THEN PyInt(IF f = "max" THEN MaxInt(seq) ELSE MinInt(seq))
  ELSE IF \E i \in 1..Len(seq) : Tag(seq[i]) \in {"none", "dict"} THEN Err("TypeError")
  ELSE Unmodelled

\* repr(v) / str(v): exact for an int, a bool, None, a str without quote or
\* backslash, and a list of these
ScalarRepr(v, quote) ==
  CASE IsStr(v) ->
         IF \E i \in 1..Len(v[2]) : v[2][i] \in {"'", "\\"} THEN Unmodelled
         ELSE IF quote THEN PyStr(<<"'">> \o v[2] \o <<"'">>) ELSE v
    [] Tag(v) = "int" ->
         PyStr(IF v[2] < 0 THEN <<"-">> \o DigitsOfNat(0 - v[2]) ELSE DigitsOfNat(v[2]))
    [] Tag(v) = "none" -> PyStr(<<"N", "o", "n", "e">>)
    [] Tag(v) = "bool" ->
         PyStr(IF v[2] THEN <<"T", "r", "u", "e">> ELSE <<"F", "a", "l", "s", "e">>)
    [] OTHER -> Unmodelled

SimpleStr(v) ==
  IF Tag(v) = "list" THEN
    LET rs == [i \in 1..Len(v[2]) |-> ScalarRepr(v[2][i], TRUE)]
    IN IF \E i \in 1..Len(rs) : rs[i] = Unmodelled THEN Unmodelled
       ELSE PyStr(<<"[">> \o JoinStr(<<",", " ">>, [i \in 1..Len(rs) |-> rs[i][2]])
                   \o <<"]">>)
  ELSE ScalarRepr(v, FALSE)

\* the built-in f called with the positional arguments pos
Apply(f, pos) ==
  CASE f \in {"timestamp", "uuid"} ->
         IF pos = <<>> THEN <<"opaque", f>> ELSE Err("TypeError")
    [] f \in {"min", "max"} ->
         IF pos = <<>> THEN Err("TypeError")
         ELSE IF Len(pos) > 1 THEN Extreme(f, pos)
         ELSE IF IsSeq(pos[1]) THEN
           IF pos[1][2] = <<>> THEN Err("ValueError") ELSE Extreme(f, pos[1][2])
         ELSE IF Iterable(pos[1]) THEN Unmodelled
         ELSE Err("TypeError")
    [] f = "sum" ->
         IF pos = <<>> \/ Len(pos) > 2 THEN Err("TypeError")
         ELSE IF ~Iterable(pos[1]) THEN Err("TypeError")
         ELSE IF Len(pos) = 2 THEN Unmodelled
         ELSE IF IsSeq(pos[1]) /\ AllInts(pos[1][2]) THEN PyInt(SumInts(pos[1][2]))
         ELSE IF IsSeq(pos[1])
                 /\ \E i \in 1..Len(pos[1][2]) :
                      Tag(pos[1][2][i]) \in {"str", "none", "dict", "list", "tuple"}
              THEN Err("TypeError")
         ELSE Unmodelled
    [] f = "bool" ->
         IF pos = <<>> THEN <<"bool", FALSE>>
         ELSE IF Len(pos) > 1 THEN Err("TypeError")
         ELSE <<"bool", Truthy(pos[1])>>
    [] f = "str" ->
         IF pos = <<>> THEN PyStr(<<>>)
         ELSE IF Len(pos) > 1 THEN Unmodelled
         ELSE SimpleStr(pos[1])
    [] f = "int" ->
         IF pos = <<>> THEN PyInt(0)
         ELSE IF Len(pos) > 1 THEN Unmodelled
         ELSE CASE Tag(pos[1]) = "int" -> pos[1]
                [] Tag(pos[1]) = "bool" -> PyInt(IF pos[1][2] THEN 1 ELSE 0)
                [] IsStr(pos[1]) ->
                     IF IsDigits(pos[1][2]) THEN PyInt(IntOfDigits(pos[1][2]))
                     ELSE IF \A i \in 1..Len(pos[1][2]) :
                               pos[1][2][i] \in Letters \/ pos[1][2][i] = "."
                          THEN Err("ValueError")
                     ELSE Unmodelled
                [] Tag(pos[1]) \in {"none", "list", "tuple", "dict", "type"} ->
                     Err("TypeError")
                [] OTHER -> Unmodelled
    [] f = "float" ->
         IF pos = <<>> THEN <<"float", <<"0", ".", "0">>>>
         ELSE IF Len(pos) > 1 THEN Err("TypeError")
         ELSE CASE Tag(pos[1]) = "float" -> pos[1]
                [] Tag(pos[1]) \in {"none", "list", "tuple", "dict", "type"} ->
                     Err("TypeError")
                [] OTHER -> Unmodelled

----------------------------------------------------------------------------
(* The operators *)

\* OperatorSelect.eval: the default handed to get_field, given the evaluated
\* second argument
SelectDefault(v) ==
  IF ~IsOp(v)
  THEN LET lit == LiteralEval(v) IN IF IsErr(lit) THEN v ELSE lit
  ELSE v

\* OperatorSelect.eval
SelectEval(eargs, data) ==
  IF eargs = <<>> THEN Err("IndexError")
  ELSE GetField(data, eargs[1],
                IF Len(eargs) > 1 THEN SelectDefault(eargs[2]) ELSE EmptyDefault,
                KeyDelimiter)

\* OperatorExec.eval: the call of the registered function, f(func_args)
CallRegistered(f, func_args) == Apply(f, <<PyList(func_args)>>)

\* OperatorExec.eval: the value passed for one argument, literal_eval of it
\* when the node's own argument is a str
ExecArg(arg, value) == IF IsStr(arg) THEN LiteralEval(value) ELSE value

\* OperatorExec.eval
ExecEval(node, eargs) ==
  IF eargs = <<>> THEN Err("IndexError")
  ELSE
    LET func_name == eargs[1]
        own == Tail(OpArgs(node))
        rest == Tail(eargs)
        func_args == [i \in 1..Len(rest) |-> ExecArg(own[i], rest[i])]
    IN IF HasErr(func_args) THEN FirstErr(func_args)
       ELSE IF ~Hashable(func_name) THEN Err("TypeError")
       ELSE IF ~(IsStr(func_name) /\ func_name[2] \in DOMAIN FUNCTIONS)
       THEN Err("KeyError")
       ELSE CallRegistered(FUNCTIONS[func_name[2]], func_args)

\* arg.format_map(data): no character of the model is a brace, and format_map
\* returns a str without braces as it is; anything but a str has no format_map
FormatMap(arg, data) == IF IsStr(arg) THEN arg ELSE Err("AttributeError")

\* OperatorFormat.eval
FormatEval(eargs, data) ==
  LET done == [i \in 1..Len(eargs) |-> FormatMap(eargs[i], data)]
  IN IF HasErr(done) THEN FirstErr(done)
     ELSE PyStr(JoinStr(<<FmtJoinDelimiter>>, [i \in 1..Len(done) |-> done[i][2]]))

\* Operator.__call__: the arguments evaluated left to right, then eval
RECURSIVE CallOp(_, _)
CallOp(node, data) ==
  LET own == OpArgs(node)
      eargs == [i \in 1..Len(own) |->
                  IF IsOp(own[i]) THEN CallOp(own[i], data) ELSE own[i]]
  IN IF HasErr(eargs) THEN FirstErr(eargs)
     ELSE CASE OpClass(node) = "OperatorSelect" -> SelectEval(eargs, data)
            [] OpClass(node) = "OperatorExec" -> ExecEval(node, eargs)
            [] OpClass(node) = "OperatorFormat" -> FormatEval(eargs, data)

\* Template._fill_value
RECURSIVE FillValue(_, _)
FillValue(value, data) ==
  CASE IsStr(value) -> value
    [] IsDict(value) ->
         LET f == [k \in DOMAIN value[2] |-> FillValue(value[2][k], data)]
         IN IF \E k \in DOMAIN f : IsErr(f[k]) THEN DictErr(f) ELSE PyDict(f)
    [] IsSeq(value) ->
         LET t == [i \in 1..Len(value[2]) |-> FillValue(value[2][i], data)]
         IN IF HasErr(t) THEN FirstErr(t) ELSE PyList(t)
    [] IsOp(value) -> CallOp(value, data)
    [] OTHER -> value

----------------------------------------------------------------------------
(* Inputs *)

\* the longest generated str schema of Spec, of SpecParse, and the longest
\* generated key of SpecField
MaxLeaf == 3
MaxLen == 7
MaxKeyLen == 4

\* every sequence over S of length at most n
SeqsUpTo(S, n) == UNION {[1..k -> S] : k \in 0..n}

ParseChars == {BracketOpen, BracketClose, OperatorDelimiter, EscapeQuote, "a"}
KeyChars == {"a", "b", KeyDelimiter}

\* schemas: operator expressions of each kind, scalars, nested lists and dicts
SchemaCases ==
  {PyStr(<<"[", "k", "]">>),
   PyStr(<<"[", "a", ".", "b", "]">>),
   PyStr(<<"[", "k", ":", "4", "2", "]">>),
   PyStr(<<"[", "k", ":", "a", "b", "]">>),
   PyStr(<<"[", "k", ":", "[", "o", "]", "]">>),
   PyStr(<<"[", "k", ":", "'", "a", "'", "]">>),
   PyStr(<<"[", "k", ":", "N", "o", "n", "e", "]">>),
   PyStr(<<"[", "x", ":", "4", "2", "]">>),
   PyStr(<<"[", "!", "x", ":", "m", "a", "x", ":", "[", "x", "]", ":", "[", "y", "]", "]">>),
   PyStr(<<"[", "!", "x", ":", "i", "n", "t", ":", "[", "x", "]", "]">>),
   PyStr(<<"[", "!", "x", ":", "u", "u", "i", "d", "]">>),
   PyStr(<<"[", "!", "x", ":", "s", "t", "r", ":", "a", "b", "]">>),
   PyStr(<<"[", "!", "x", ":", "m", "a", "x", ":", "a", "b", "]">>),
   PyStr(<<"[", "!", "x", ":", "s", "u", "m", ":", "1", ":", "2", "]">>),
   PyStr(<<"[", "!", "x", ":", "a", "b", "]">>),
   PyStr(<<"[", "!", "s", "]">>),
   PyStr(<<"[", "!", "x", "]">>),
   PyStr(<<"[", "!", "f", "]">>),
   PyStr(<<"[", "!", "f", ":", "a", "b", ":", "[", "k", "]", "]">>),
   PyStr(<<"[", "!", "q", ":", "a", "]">>),
   PyStr(<<"backtick", "[", "k", "]", "backtick">>),
   PyStr(<<"[", "k", ":", "backtick", "a", ":", "b", "backtick", "]">>),
   PyStr(<<"[", "[", "k", "]", "]">>),
   PyStr(<<"[", "!", "s", ":", "k", "]">>),
   PyInt(42),
   PyNone,
   PyList(<<PyStr(<<"[", "k", "]">>), PyInt(7), PyStr(<<"a", "b">>)>>),
   PyDict((<<"n">> :> PyDict((<<"v">> :> PyStr(<<"[", "k", "]">>))))),
   PyDict((<<"p">> :> PyStr(<<"backtick", "a", "b", "backtick">>)) @@ (<<"q">> :> PyList(<<PyInt(1), PyStr(<<"a">>)>>))),
   PyTuple(<<PyStr(<<"a">>), PyInt(1)>>),
   PyList(<<PyStr(<<"[", "k">>), PyStr(<<"a">>)>>),
   PyDict((<<"p">> :> PyList(<<PyStr(<<"a">>), PyDict((<<"q">> :> PyStr(<<"b">>)))>>)) @@ (<<"r">> :> PyInt(3)))}

Schemas == SchemaCases \cup {PyStr(s) : s \in SeqsUpTo(ParseChars, MaxLeaf)}

\* data mappings handed to eval
Datas ==
  {EmptyDict,
   PyDict((<<"k">> :> PyStr(<<"v">>)) @@ (<<"x">> :> PyStr(<<"5">>))),
   PyDict((<<"o">> :> PyStr(<<"4", "2">>)) @@ (<<"a">> :> PyDict((<<"b">> :> PyInt(3))))),
   PyDict((<<"o">> :> PyInt(7)) @@ (<<"a">> :> PyInt(5))),
   PyDict((<<"x">> :> PyInt(1)) @@ (<<"y">> :> PyInt(2)))}

\* containers handed to get_field
Objects ==
  {PyList(<<PyDict((<<"b">> :> PyDict((<<"c">> :> PyList(<<PyDict((<<"d">> :> PyInt(1))), PyDict((<<"d">> :> PyInt(2))), EmptyDict>>))))), PyDict((<<"b">> :> PyInt(3)))>>),
   PyDict((<<"a">> :> PyList(<<PyDict((<<"b">> :> PyInt(1))), PyDict((<<"b">> :> PyInt(2))), EmptyDict>>))),
   PyList(<<PyDict((<<"a">> :> PyDict((<<"b">> :> PyInt(1))))), PyDict((<<"a">> :> PyDict((<<"b">> :> PyInt(2))))), PyDict((<<"a">> :> EmptyDict))>>),
   PyDict((<<"a">> :> PyInt(1))),
   PyDict((<<"a">> :> PyTuple(<<PyDict((<<"b">> :> PyInt(1))), PyList(<<PyDict((<<"b">> :> PyInt(2))), PyInt(4)>>)>>))),
   EmptyDict,
   PyDict((<<"a">> :> PyDict((<<"b">> :> PyDict((<<"a">> :> PyInt(2))))))),
   PyList(<<>>),
   PyInt(5)}

\* keys handed to get_field besides the generated ones
KeyCases ==
  {PyStr(<<"b", ".", "c", ".", "d">>),
   PyStr(<<"a", "-", "b">>),
   PyList(<<PyStr(<<"a">>), PyStr(<<"b">>)>>),
   PyList(<<PyStr(<<"a">>), PyStr(<<>>), PyStr(<<"b">>)>>),
   PyTuple(<<PyStr(<<"b">>), PyStr(<<"a">>)>>),
   PyInt(7)}

Keys == KeyCases \cup {PyStr(s) : s \in SeqsUpTo(KeyChars, MaxKeyLen)}

Defaults == {PyType("KeyError"), PyType("int"), PyNone, PyInt(0)}
Delimiters == {KeyDelimiter, FmtKeyDelimiter}

----------------------------------------------------------------------------
(* The state: one Template handle, and the last call with its outcome *)

NoTemplate ==
  [built |-> FALSE, schema |-> PyNone, definitions |-> Definitions,
   operators |-> OPERATORS, functions |-> FUNCTIONS, parsed |-> PyNone, keys |-> {}]

\* Template.__init__, when parsing raises nothing
NewTemplate(schema) ==
  [built |-> TRUE, schema |-> schema, definitions |-> Definitions,
   operators |-> OPERATORS, functions |-> FUNCTIONS,
   parsed |-> ParseValue(schema), keys |-> CollectKeys(ParseValue(schema))]

\* errSeen records that some eval of the Template has raised
Init ==
  /\ tmpl = NoTemplate
  /\ op = "none"
  /\ args = <<>>
  /\ result = PyNone
  /\ errSeen = FALSE

\* Template(schema): a parse error leaves no Template
Construct(schema) ==
  /\ ~tmpl.built
  /\ op' = "Template"
  /\ args' = <<schema>>
  /\ IF IsErr(ParseValue(schema))
     THEN tmpl' = tmpl /\ result' = ParseValue(schema)
     ELSE tmpl' = NewTemplate(schema) /\ result' = PyNone
  /\ UNCHANGED errSeen

\* the Template after eval(data): eval assigns nothing to it
AfterEvalStored(t, data) == [t EXCEPT !.parsed = FillValue(t.parsed, data)]
AfterEval(t, data) == t

\* template.eval(data)
Eval(data) ==
  /\ tmpl.built
  /\ op' = "eval"
  /\ args' = <<data>>
  /\ result' = FillValue(tmpl.parsed, data)
  /\ tmpl' = AfterEval(tmpl, data)
  /\ errSeen' = (errSeen \/ IsErr(FillValue(tmpl.parsed, data)))

\* get_field(obj, key, default=default, delimiter=delim)
GetFieldCall(obj, key, default, delim) ==
  /\ op' = "get_field"
  /\ args' = <<obj, key, default, PyStr(<<delim>>)>>
  /\ result' = GetField(obj, key, default, delim)
  /\ UNCHANGED <<tmpl, errSeen>>

Next ==
  \/ \E schema \in Schemas : Construct(schema)
  \/ \E data \in Datas : Eval(data)

Spec == Init /\ [][Next]_vars

\* _parse_string on every generated str: the input is drawn first, then parsed
InitParse ==
  /\ tmpl = NoTemplate
  /\ op = "none"
  /\ args \in {<<PyStr(s)>> : s \in SeqsUpTo(ParseChars, MaxLen)}
  /\ result = PyNone
  /\ errSeen = FALSE

NextParse == op = "none" /\ Construct(args[1])

SpecParse == InitParse /\ [][NextParse]_vars

\* get_field on every input: the input is drawn first, then resolved
InitField ==
  /\ tmpl = NoTemplate
  /\ op = "none"
  /\ args \in {<<obj, key, default, PyStr(<<delim>>)>> :
                  obj \in Objects, key \in Keys, default \in Defaults,
                  delim \in Delimiters}
  /\ result = PyNone
  /\ errSeen = FALSE

NextField == op = "none" /\ GetFieldCall(args[1], args[2], args[3], args[4][2][1])

SpecField == InitField /\ [][NextField]_vars

----------------------------------------------------------------------------
(* Properties of get_field (SpecField) *)

NotFound == <<"opaque", "notfound">>

\* the value under a chain of dict keys, NotFound when a step is no dict or
\* lacks the key
RECURSIVE Follow(_, _)
Follow(obj, path) ==
  IF path = <<>> THEN obj
  ELSE IF IsDict(obj) /\ IsStr(path[1]) /\ path[1][2] \in DOMAIN obj[2]
  THEN Follow(obj[2][path[1][2]], Tail(path))
  ELSE NotFound

\* the non-empty segments among the first n of segs, in order
RECURSIVE NonEmptyPrefix(_, _)
NonEmptyPrefix(segs, n) ==
  IF n = 0 THEN <<>>
  ELSE IF Truthy(segs[n]) THEN Append(NonEmptyPrefix(segs, n - 1), segs[n])
  ELSE NonEmptyPrefix(segs, n - 1)

CallSegments == KeySegments(args[2], args[4][2][1])

\* the value the traversal holds when segment n is the next one to consume
ReachedAt(n) == Follow(args[1], NonEmptyPrefix(CallSegments, n - 1))

\* the per-element results the claim states, for the sequence cur and the path
\* from segment n on
ElementResults(cur, n) ==
  [i \in 1..Len(cur[2]) |->
     GetField(cur[2][i], PyList(From(CallSegments, n)), args[3], args[4][2][1])]

DoctestObject ==
  PyList(<<PyDict(<<"b">> :> PyDict(<<"c">> :>
             PyList(<<PyDict(<<"d">> :> PyInt(1)), PyDict(<<"d">> :> PyInt(2)),
                      EmptyDict>>))),
           PyDict(<<"b">> :> PyInt(3))>>)
DoctestKey == PyStr(<<"b", ".", "c", ".", "d">>)
DoctestResult ==
  PyList(<<PyList(<<PyInt(1), PyInt(2), PyNone>>), PyNone>>)

\* C1: when get_field's traversal reaches a list or tuple with a non-empty
\* segment still to consume, the result is a sequence of the same type, length
\* and order whose i-th element is get_field of the i-th element and the path
\* from that segment on, with the same default and delimiter (the call raises
\* what the first failing element raises); 'b.c.d' on the doctest object with
\* default None gives [[1, 2, None], None].
C1_Broadcast ==
  (op = "get_field" /\ Iterable(args[2])) =>
    /\ \A n \in 1..Len(CallSegments) :
         (Truthy(CallSegments[n]) /\ IsSeq(ReachedAt(n))) =>
           LET rs == ElementResults(ReachedAt(n), n)
           IN IF HasErr(rs) THEN result = FirstErr(rs)
              ELSE result = <<Tag(ReachedAt(n)), rs>>
    /\ (args = <<DoctestObject, DoctestKey, PyNone, PyStr(<<KeyDelimiter>>)>>)
         => result = DoctestResult

\* C1 witness: the nested broadcast of the doctest has been resolved
C1_Witness ==
  /\ op = "get_field"
  /\ args = <<DoctestObject, DoctestKey, PyNone, PyStr(<<KeyDelimiter>>)>>
  /\ result = DoctestResult

\* C2: when get_field's traversal holds a value that is neither a dict nor a
\* list/tuple and a non-empty segment remains, the call raises if the default
\* is an exception class and returns the default otherwise; get_field never
\* returns the exception class itself.
C2_ScalarMidPath ==
  (op = "get_field" /\ Iterable(args[2])) =>
    /\ \A n \in 1..Len(CallSegments) :
         (/\ Truthy(CallSegments[n])
          /\ ReachedAt(n) /= NotFound
          /\ ~IsDict(ReachedAt(n))
          /\ ~IsSeq(ReachedAt(n)))
           => result = MissingKey(args[3])
    /\ ~IsExceptionClass(result)

----------------------------------------------------------------------------
(* Properties of the Template (Spec) *)

EvalData == args[1]

\* the last call was eval on a Template whose parsed schema is one node of cls
EvalOfNode(cls) ==
  op = "eval" /\ IsOp(tmpl.parsed) /\ OpClass(tmpl.parsed) = cls

\* the arguments of the Template's node, evaluated
EvaluatedArgs ==
  [i \in 1..Len(OpArgs(tmpl.parsed)) |->
     IF IsOp(OpArgs(tmpl.parsed)[i])
     THEN CallOp(OpArgs(tmpl.parsed)[i], EvalData)
     ELSE OpArgs(tmpl.parsed)[i]]

\* a str key of one segment that the data lacks
MissesKey(key, data) ==
  /\ IsStr(key)
  /\ key[2] /= <<>>
  /\ \A i \in 1..Len(key[2]) : key[2][i] /= KeyDelimiter
  /\ key[2] \notin DOMAIN data[2]

\* C3: '[key:fallback]' on data lacking key yields the literal value of a
\* literal-str fallback that parses, the raw str when it does not parse, and
\* the value of a nested-operator fallback exactly as that operator returned it.
C3_SelectFallback ==
  (/\ EvalOfNode("OperatorSelect")
   /\ Len(OpArgs(tmpl.parsed)) = 2
   /\ MissesKey(OpArgs(tmpl.parsed)[1], EvalData)
   /\ ~HasErr(EvaluatedArgs))
    => LET own == OpArgs(tmpl.parsed)[2]
       IN IF IsStr(own)
          THEN result = (IF IsErr(LiteralEval(own)) THEN own ELSE LiteralEval(own))
          ELSE result = EvaluatedArgs[2]

\* the Exec node names a registered function and its arguments evaluate
ExecCallReady ==
  /\ EvalOfNode("OperatorExec")
  /\ OpArgs(tmpl.parsed) /= <<>>
  /\ ~HasErr(EvaluatedArgs)
  /\ IsStr(EvaluatedArgs[1])
  /\ EvaluatedArgs[1][2] \in DOMAIN FUNCTIONS

ExecFunction == FUNCTIONS[EvaluatedArgs[1][2]]

\* the values Exec passes, as the code coerces them
ExecValues ==
  [i \in 1..(Len(EvaluatedArgs) - 1) |->
     ExecArg(OpArgs(tmpl.parsed)[i + 1], EvaluatedArgs[i + 1])]

\* C4: Exec calls the named function with the remaining evaluated arguments
\* as separate positional values in order, and with none when none remain.
C4_ExecPositional ==
  (/\ ExecCallReady
   /\ ~HasErr(ExecValues)
   /\ Apply(ExecFunction, ExecValues) /= Unmodelled)
    => result = Apply(ExecFunction, ExecValues)

\* the values Exec passes when a literal str that does not parse is kept raw
ExecValuesKept ==
  [i \in 1..(Len(EvaluatedArgs) - 1) |->
     IF IsStr(OpArgs(tmpl.parsed)[i + 1]) /\ IsErr(LiteralEval(EvaluatedArgs[i + 1]))
     THEN EvaluatedArgs[i + 1]
     ELSE ExecArg(OpArgs(tmpl.parsed)[i + 1], EvaluatedArgs[i + 1])]

\* C5: a literal str argument of Exec that does not parse as a literal is kept
\* as the raw str and passed on: eval does not fail because of it.
C5_CoercionKept ==
  (/\ ExecCallReady
   /\ HasErr(ExecValues)
   /\ CallRegistered(ExecFunction, ExecValuesKept) /= Unmodelled)
    => result = CallRegistered(ExecFunction, ExecValuesKept)

\* the str leaves of a schema
RECURSIVE Leaves(_)
Leaves(v) ==
  CASE IsStr(v) -> {v[2]}
    [] IsDict(v) -> UNION {Leaves(v[2][k]) : k \in DOMAIN v[2]}
    [] IsSeq(v) -> UNION {Leaves(v[2][i]) : i \in 1..Len(v[2])}
    [] OTHER -> {}

RECURSIVE HasTuple(_)
HasTuple(v) ==
  CASE Tag(v) = "tuple" -> TRUE
    [] Tag(v) = "list" -> \E i \in 1..Len(v[2]) : HasTuple(v[2][i])
    [] IsDict(v) -> \E k \in DOMAIN v[2] : HasTuple(v[2][k])
    [] OTHER -> FALSE

\* no str leaf both starts with the open bracket and ends with the close one
NoOperatorExpression(schema) ==
  \A s \in Leaves(schema) :
    ~(s /= <<>> /\ s[1] = BracketOpen /\ s[Len(s)] = BracketClose)

\* no str leaf starts with the open bracket or ends with the close one, and
\* every sequence is a list
Plain(schema) ==
  /\ ~HasTuple(schema)
  /\ \A s \in Leaves(schema) :
       s = <<>> \/ (s[1] /= BracketOpen /\ s[Len(s)] /= BracketClose)

\* the schema with every quote-wrapped str leaf without its first and last
\* character
RECURSIVE Unquoted(_)
Unquoted(v) ==
  CASE IsStr(v) ->
         IF v[2] /= <<>> /\ v[2][1] = EscapeQuote /\ v[2][Len(v[2])] = EscapeQuote
         THEN PyStr([i \in 1..(IF Len(v[2]) = 1 THEN 0 ELSE Len(v[2]) - 2) |-> v[2][i + 1]])
         ELSE v
    [] IsDict(v) -> PyDict([k \in DOMAIN v[2] |-> Unquoted(v[2][k])])
    [] IsSeq(v) -> <<Tag(v), [i \in 1..Len(v[2]) |-> Unquoted(v[2][i])]>>
    [] OTHER -> v

\* C6 as stated: a schema without operator expression is constructed and
\* eval returns it unchanged, quote-wrapped str leaves included.
C6_Unchanged ==
  /\ (op = "Template" /\ NoOperatorExpression(args[1])) => tmpl.built
  /\ (op = "eval" /\ NoOperatorExpression(tmpl.schema)) => result = tmpl.schema

\* C6 amended: a schema of dicts, lists, strs and scalars in which no str leaf
\* starts with the open bracket or ends with the close bracket is constructed,
\* and eval returns it with every quote-wrapped str leaf stripped of its first
\* and last character (unchanged when there is none).
C6_PlainUnquoted ==
  /\ (op = "Template" /\ Plain(args[1])) => tmpl.built
  /\ (op = "eval" /\ Plain(tmpl.schema)) => result = Unquoted(tmpl.schema)

\* C6 witness: eval of a nested schema with a quote-wrapped leaf
C6_Witness ==
  /\ op = "eval"
  /\ Plain(tmpl.schema)
  /\ IsDict(tmpl.schema)
  /\ \E k \in DOMAIN tmpl.schema[2] : IsSeq(tmpl.schema[2][k])
  /\ result /= tmpl.schema
  /\ result = Unquoted(tmpl.schema)

\* C7: eval never changes the Template, also after an eval that raised: the
\* Template stays the one construction made of its schema, and every eval
\* returns what a fresh Template of that schema returns.
C7_EvalPure ==
  tmpl.built =>
    /\ tmpl = NewTemplate(tmpl.schema)
    /\ op = "eval" => result = FillValue(ParseValue(tmpl.schema), EvalData)

\* C7 witness: an eval that returned a value after an earlier eval raised
C7_Witness ==
  /\ op = "eval"
  /\ errSeen
  /\ ~IsErr(result)
  /\ tmpl.parsed /= tmpl.schema
  /\ result /= tmpl.parsed

\* the top-level field names the Select nodes of a parsed schema reference
RECURSIVE ReferencedNames(_)
ReferencedNames(v) ==
  CASE IsOp(v) ->
         (IF OpClass(v) = "OperatorSelect" /\ OpArgs(v) /= <<>> /\ IsStr(OpArgs(v)[1])
          THEN {Split(OpArgs(v)[1][2], KeyDelimiter)[1]} ELSE {})
           \cup UNION {ReferencedNames(OpArgs(v)[i]) : i \in 1..Len(OpArgs(v))}
    [] IsDict(v) -> UNION {ReferencedNames(v[2][k]) : k \in DOMAIN v[2]}
    [] IsSeq(v) -> UNION {ReferencedNames(v[2][i]) : i \in 1..Len(v[2])}
    [] OTHER -> {}

\* C8: keys is exactly the set of top-level field names referenced by the
\* Select operators of the schema, and holds nothing else (no fallback).
C8_KeysAreFieldNames == tmpl.built => tmpl.keys = ReferencedNames(tmpl.parsed)

\* the operator nodes of a parsed schema
RECURSIVE Nodes(_)
Nodes(v) ==
  CASE IsOp(v) -> {v} \cup UNION {Nodes(OpArgs(v)[i]) : i \in 1..Len(OpArgs(v))}
    [] IsDict(v) -> UNION {Nodes(v[2][k]) : k \in DOMAIN v[2]}
    [] IsSeq(v) -> UNION {Nodes(v[2][i]) : i \in 1..Len(v[2])}
    [] OTHER -> {}

\* C10: every Select, Format and Execute node of a constructed Template has at
\* least one argument.
C10_ArgsNonEmpty ==
  tmpl.built => \A node \in Nodes(tmpl.parsed) : OpArgs(node) /= <<>>

----------------------------------------------------------------------------
(* Properties of _parse_string (SpecParse) *)

\* the number of quote characters among the first n of s
QuotesUpTo(s, n) == Cardinality({i \in 1..n : s[i] = EscapeQuote})

InQuotes(s, n) == QuotesUpTo(s, n) % 2 = 1

\* the bracket depth after character n: open minus close brackets outside
\* quoted spans
DepthAt(s, n) ==
  Cardinality({i \in 1..n : s[i] = BracketOpen /\ ~InQuotes(s, i)})
    - Cardinality({i \in 1..n : s[i] = BracketClose /\ ~InQuotes(s, i)})

SplitPoints(s) ==
  {n \in 1..Len(s) : s[n] = OperatorDelimiter /\ ~InQuotes(s, n) /\ DepthAt(s, n) = 0}

\* the pieces of s between consecutive split points, from position x on; the
\* piece after the last split point only when it is not empty
RECURSIVE Pieces(_, _)
Pieces(s, x) ==
  LET later == {n \in SplitPoints(s) : n >= x}
  IN IF later = {}
     THEN IF x > Len(s) THEN <<>> ELSE <<From(s, x)>>
     ELSE LET n == CHOOSE m \in later : \A k \in later : m <= k
          IN <<SubSeq(s, x, n - 1)>> \o Pieces(s, n + 1)

Bracketed(s) == Len(s) >= 2 /\ s[1] = BracketOpen /\ s[Len(s)] = BracketClose

ParsedInterior == [i \in 1..(Len(args[1][2]) - 2) |-> args[1][2][i + 1]]

ParsedPieces ==
  [i \in 1..Len(Pieces(ParsedInterior, 1)) |-> ParseString(Pieces(ParsedInterior, 1)[i])]

\* C9: the interior of a bracketed str is split exactly at the delimiters at
\* bracket depth zero outside quoted spans; the pieces are parsed in order with
\* no character dropped, an empty piece before a delimiter is an empty-str
\* argument, an empty piece after the last split point is dropped; the operator
\* is built from these arguments.
C9_Splitting ==
  (op = "Template" /\ IsStr(args[1]) /\ Bracketed(args[1][2])) =>
    /\ SplitArgs(ParsedInterior) = Pieces(ParsedInterior, 1)
    /\ IF HasErr(ParsedPieces) THEN ~tmpl.built /\ result = FirstErr(ParsedPieces)
       ELSE IF IsErr(MakeOperator(ParsedPieces))
            THEN ~tmpl.built /\ result = MakeOperator(ParsedPieces)
       ELSE tmpl.built /\ tmpl.parsed = MakeOperator(ParsedPieces)

\* C9 witness: a constructed operator whose interior holds a split point, an
\* empty piece before it, and a delimiter that is no split point
C9_Witness ==
  /\ op = "Template"
  /\ tmpl.built
  /\ Bracketed(args[1][2])
  /\ 1 \in SplitPoints(ParsedInterior)
  /\ \E n \in 1..Len(ParsedInterior) :
       ParsedInterior[n] = OperatorDelimiter /\ n \notin SplitPoints(ParsedInterior)
  /\ Len(OpArgs(tmpl.parsed)) = 2

====
